---- MODULE Spec2Model ----
(***************************************************************************)
(* Model of the transaction classification pipeline of firefly-iii-ai:     *)
(* the webhook ingestion (App.#onWebhook / App.#handleWebhook), the task   *)
(* it pushes to the work queue, the queue itself (npm package "queue",     *)
(* imported at App.js:8 and configured at App.js:54-58), the job registry  *)
(* (JobList), the ledger calls of FireflyService and the provider's        *)
(* classify.                                                               *)
(*                                                                         *)
(* Every await of the task is a suspension point: the call is issued by    *)
(* the action that reaches the await and its return (success or failure)   *)
(* is a separate action, so that other handlers can interleave exactly     *)
(* where the event loop lets them.  Everything a handler does between two  *)
(* awaits, including the promise callbacks that run as microtasks, is one  *)
(* action.                                                                 *)
(***************************************************************************)
EXTENDS Integers, Sequences, FiniteSets, TLC

\* ------------------------------------------------------------------ bounds
\* Number of jobs the registry may hold in a run.
MaxJobs == 3
\* Number of started jobs whose 30 s timer fires before they settle.
MaxTimeouts == 1
\* Tag-poll cycles run.
MaxPolls == 3
\* Tokens of a free-form provider answer.
MaxLen == 3
\* Jobs of a run of the task with destination accounts and budgets.
MaxEntityJobs == 2

\* ------------------------------------------------------- program constants
\* new Queue({ concurrency: 1, ... })
Concurrency == 1

\* JavaScript null / undefined.
Null == "null"
\* getConfigVariable("FIREFLY_TAG", "AI categorized")
MarkerTag == "AI categorized"
\* A tag the user put on a transaction; never touched by the pipeline.
OtherTag == "groceries"
\* TAG_FILTER, the tag the tag-poll looks for.
FilterTag == "to-analyze"
\* TAG_LIMIT, the number of transactions one poll asks the ledger for.
TagLimit == 2

\* ------------------------------------------------------------- input sets
\* Category names: "Food" exists in the ledger from the start, "Snacks" does not.
CatNames == {"Food", "Snacks"}
\* What the model answers once trimmed: a known name, an unknown name, nothing.
Guesses == CatNames \cup {""}
\* Transactions (transaction groups) of the ledger.
TxIds == {1, 2}
JobIds == 1..MaxJobs

\* A transaction line (split) as a webhook delivery carries it.
Line(type, description, destination, tags) ==
  [type |-> type, description |-> description, destination_name |-> destination,
   tags |-> tags]

GoodLine(tags) == Line("withdrawal", "coffee", "Cafe", tags)

\* A payload: content.id (0 when absent), content.transactions (hasTransactions
\* FALSE when the key is absent).
Body(trigger, response, id, hasTransactions, transactions) ==
  [trigger |-> trigger, response |-> response, id |-> id,
   hasTransactions |-> hasTransactions, transactions |-> transactions]

\* A line without a tags array (transaction.tags is null or undefined).
NullTags == <<Null>>

LineChoices ==
  {Line(t, d, n, g) : t \in {"withdrawal", "deposit", "transfer"},
                      d \in {"", "coffee"}, n \in {"", "Cafe"},
                      g \in {NullTags, <<MarkerTag>>}}

\* Every payload shape the validation distinguishes.
AllBodies ==
  {Body(tr, rs, id, TRUE, txs) :
     tr \in {"STORE_TRANSACTION", "UPDATE_TRANSACTION"},
     rs \in {"TRANSACTIONS", "ACCOUNTS"},
     id \in {0, 1},
     txs \in {<<>>} \cup {<<l>> : l \in LineChoices}}
  \cup {Body(tr, rs, id, FALSE, <<>>) :
     tr \in {"STORE_TRANSACTION", "UPDATE_TRANSACTION"},
     rs \in {"TRANSACTIONS", "ACCOUNTS"},
     id \in {0, 1}}

\* The payloads of the pipeline runs: a one-line transaction that already
\* carries the marker tag, a two-line transaction with another tag and with no
\* tags array, and a delivery of another trigger.
PipelineBodies ==
  {Body("STORE_TRANSACTION", "TRANSACTIONS", 1, TRUE, <<GoodLine(<<MarkerTag>>)>>),
   Body("STORE_TRANSACTION", "TRANSACTIONS", 2, TRUE,
        <<GoodLine(<<OtherTag>>), GoodLine(NullTags)>>),
   Body("UPDATE_TRANSACTION", "TRANSACTIONS", 1, TRUE, <<GoodLine(<<MarkerTag>>)>>)}

VARIABLES
  jobList,     \* JobList.#jobs: job id -> [status, data]
  jobLog,      \* per job, the JobList mutators applied to it, in order
  queue,       \* the Queue object: jobs, pending, session, running, timers
  task,        \* per job, the state of its queued async function
  calls,       \* per job, the external calls it issued, in order
  sent,        \* per job, the bodies of the transaction updates it sent
  creates,     \* per job, its createCategory calls: name, whether it existed
  ledger,      \* the external ledger: categories, transactions, next id
  untagged,    \* per job, the bodies of the tag removals it sent
  http,        \* the last webhook delivery and the response it got
  logging,     \* whether http keeps the delivery's payload
  polls,       \* the tag-poll cycles run: what each found and enqueued
  parsed,      \* a provider answer and what OpenAiService.classify made of it
  exchange,    \* an answer of the model endpoint and what each provider made of it
  entity,      \* the task with destination accounts and budgets, and its ledger
  listed       \* a call of getTransactionsWithTag: its limit and what it returned

vars == <<jobList, jobLog, queue, task, calls, sent, creates, ledger, untagged,
          http, logging, polls, parsed, exchange, entity, listed>>

\* The part of the state the application's handlers read and write.
App == [jobList |-> jobList, jobLog |-> jobLog, queue |-> queue, task |-> task,
        calls |-> calls, sent |-> sent, creates |-> creates,
        untagged |-> untagged]

NoJob == [status |-> "none", data |-> [category |-> Null, response |-> Null,
                                         error |-> Null]]

NoResult == [category |-> Null, suggestedCategory |-> Null]

\* A task: where its async function stands (pc: the call it awaits), its closure
\* (kind, txId, lines, categories, result, newCategoryId, and data, the lines
\* removeTagFromTransaction read) and the closure of the
\* queue's next callback made for it (session, once, didTimeout).
NoTask == [pc |-> "none", kind |-> "webhook", txId |-> 0, lines |-> <<>>,
           categories |-> [n \in CatNames |-> 0], result |-> NoResult,
           newCategoryId |-> 0, data |-> <<>>, session |-> 0, once |-> FALSE,
           didTimeout |-> FALSE]

\* The calls a task awaits.
AwaitedCalls == {"getCategories", "classify", "createCategory", "setCategory",
                 "getTransaction", "putTags"}

NumJobs(M) == Cardinality({j \in JobIds : M.jobList[j].status # "none"})

\* ------------------------------------------------------------ JobList.js
CreateJob(M, id) ==
  [M EXCEPT !.jobList[id] = [NoJob EXCEPT !.status = "queued"],
            !.jobLog[id] = <<"queued">>]

SetJobInProgress(M, id) ==
  [M EXCEPT !.jobList[id].status = "in_progress",
            !.jobLog[id] = Append(@, "in_progress")]

UpdateJobData(M, id, data) ==
  [M EXCEPT !.jobList[id].data = data,
            !.jobLog[id] = Append(@, "data")]

SetJobFinished(M, id) ==
  [M EXCEPT !.jobList[id].status = "finished",
            !.jobLog[id] = Append(@, "finished")]

SetJobError(M, id, message) ==
  [M EXCEPT !.jobList[id].status = "error",
            !.jobList[id].data.error = message,
            !.jobLog[id] = Append(@, "error")]

\* ------------------------------------------------- the queued task, part 1
\* The task from its first statement to its first await: setJobInProgress,
\* then the call of getCategories.
RunTask(M, j) ==
  LET M1 == SetJobInProgress(M, j)
  IN [M1 EXCEPT !.task[j].pc = "getCategories",
                !.calls[j] = Append(@, "getCategories")]

\* ------------------------------------------------------- queue (npm, v7)
\* done(): session++, running = false, dispatch "end".
QDone(M) ==
  [M EXCEPT !.queue.session = @ + 1, !.queue.running = FALSE]

\* end(error): clearTimers(), jobs.length = 0, pending = 0, done(error).
QEnd(M) ==
  QDone([M EXCEPT !.queue.timers = {}, !.queue.jobs = <<>>, !.queue.pending = 0])

\* The queue's own "error" listener, registered by its constructor before the
\* application's (App.js:66): _errorHandler(evt) { this.end(evt.detail.error) }.
\* The application's listener only logs.
QErrorHandler(M) == QEnd(M)

\* _start(): takes the head job if a slot is free, arms its timer (timeout is
\* 30000), counts it pending and calls it; then tries again.
RECURSIVE QStart(_)
QStart(M) ==
  LET M1 == [M EXCEPT !.queue.running = TRUE]
  IN IF M1.queue.pending >= Concurrency THEN M1
     ELSE IF M1.queue.jobs = <<>>
     THEN (IF M1.queue.pending = 0 THEN QDone(M1) ELSE M1)
     ELSE LET j == Head(M1.queue.jobs)
              M2 == [M1 EXCEPT !.queue.jobs = Tail(@),
                               !.queue.timers = @ \cup {j},
                               !.queue.pending = @ + 1,
                               !.task[j].session = M1.queue.session,
                               !.task[j].once = TRUE,
                               !.task[j].didTimeout = FALSE]
              M3 == RunTask(M2, j)
          IN IF M3.queue.running /\ M3.queue.jobs # <<>> THEN QStart(M3) ELSE M3

\* push(worker) with autostart: jobs.push(worker); this._start().
QPush(M, j) ==
  QStart([M EXCEPT !.queue.jobs = Append(@, j)])

\* next(error): the callback the queue makes for job j.  It acts once, and only
\* in the session the job was started in.
QNext(M, j, error) ==
  IF ~(M.task[j].once /\ M.queue.session = M.task[j].session) THEN M
  ELSE LET M1 == [M EXCEPT !.task[j].once = FALSE,
                           !.queue.pending = @ - 1,
                           !.queue.timers = @ \ {j}]
           M2 == IF error THEN QErrorHandler(M1) ELSE M1
       IN IF M2.queue.session # M.task[j].session THEN M2
          ELSE IF M2.queue.pending = 0 /\ M2.queue.jobs = <<>> THEN QDone(M2)
          ELSE IF M2.queue.running THEN QStart(M2)
          ELSE M2

\* The job's timer fires: didTimeout = true, dispatch "timeout" (the
\* application's listener, App.js:73, only logs), next().
QTimeout(M, j) ==
  QNext([M EXCEPT !.task[j].didTimeout = TRUE, !.queue.timeouts = @ + 1], j, FALSE)

\* ------------------------------------------------- the queued task, part 2
\* The catch block swallowing the error: the job is set Finished.
TaskThrowSwallowed(M, j, message) ==
  LET M1 == SetJobFinished(M, j)
  IN QNext([M1 EXCEPT !.task[j].pc = "settled"], j, FALSE)

\* The task ending as if it had thrown.
TaskFinishAsError(M, j) ==
  LET M1 == SetJobError(M, j, "Error")
  IN QNext([M1 EXCEPT !.task[j].pc = "settled"], j, TRUE)

\* The catch block (App.js:227-231): setJobError(job.id, error.message), then
\* the re-throw rejects the task's promise, whose catch calls next(err).
TaskThrow(M, j, message) ==
  LET M1 == SetJobError(M, j, message)
  IN QNext([M1 EXCEPT !.task[j].pc = "settled"], j, TRUE)

\* setJobFinished(job.id); the promise resolves and its then calls next().
TaskFinish(M, j) ==
  LET M1 == SetJobFinished(M, j)
  IN QNext([M1 EXCEPT !.task[j].pc = "settled"], j, FALSE)

\* JavaScript truthiness of a string or null.
Truthy(x) == x # Null /\ x # ""

OrNull(x) == IF Truthy(x) THEN x ELSE Null

\* categories.keys() of the Map getCategories built.
KnownNames(categories) == {n \in CatNames : categories[n] # 0}

\* OllamaService.classify, from the trimmed guess on.
Classify(known, guess) ==
  IF guess \notin known
  THEN [category |-> Null, suggestedCategory |-> guess]
  ELSE [category |-> guess, suggestedCategory |-> Null]

\* -------------------------------------------------------- OpenAiService
\* A text is a sequence of tokens: braces, the separator |, white space, words,
\* the members "key": "value" of a JSON object (the commas between them are
\* implied), and JSON values that are no object.  A name is a text; null and
\* undefined are NoName, the empty string is <<>>.
Space == "_"
Punctuation == {"{", "}", "|", Space}
Words == {"Food", "Snacks", "Shop", "Amazon", "Home", "Sure"}
PairTokens == {"c=Food", "c=Snacks", "a=Shop", "a=Amazon", "b=Home"}
JsonNull == "<null>"
JsonNumber == "42"
JsonString == "'Food'"
Scalars == {JsonNull, JsonNumber, JsonString}
Alphabet == Punctuation \cup Words \cup PairTokens \cup Scalars

NoName == <<Null>>

PairKey(tok) ==
  CASE tok \in {"c=Food", "c=Snacks"} -> "category"
    [] tok \in {"a=Shop", "a=Amazon"} -> "destinationAccount"
    [] OTHER -> "budget"

PairValue(tok) ==
  CASE tok = "c=Food" -> <<"Food">>
    [] tok = "c=Snacks" -> <<"Snacks">>
    [] tok = "a=Shop" -> <<"Shop">>
    [] tok = "a=Amazon" -> <<"Amazon">>
    [] OTHER -> <<"Home">>

\* The names the ledger knows.
CategorySets == {{<<"Food">>}, {<<"Food">>, <<"Shop">>}}
ExistingAccounts == {<<"Shop">>}
Budgets == {<<"Home">>}

\* String.prototype.trim
RECURSIVE TrimLeft(_)
TrimLeft(t) == IF t # <<>> /\ Head(t) = Space THEN TrimLeft(Tail(t)) ELSE t

RECURSIVE TrimRight(_)
TrimRight(t) ==
  IF t # <<>> /\ t[Len(t)] = Space THEN TrimRight(SubSeq(t, 1, Len(t) - 1)) ELSE t

Trim(t) == TrimRight(TrimLeft(t))

\* JSON.parse(t), and the members the parser reads of the value: ok FALSE is a
\* SyntaxError; kind says what the value is.  White space between tokens does
\* not count; of two members with one key the last one counts.
JsonParse(t) ==
  LET s == SelectSeq(t, LAMBDA x : x # Space)
      inner == SubSeq(s, 2, Len(s) - 1)
      Member(key) ==
        LET I == {i \in 1..Len(inner) : PairKey(inner[i]) = key}
        IN IF I = {} THEN NoName
           ELSE PairValue(inner[CHOOSE i \in I : \A k \in I : k <= i])
      Value(ok, kind) ==
        [ok |-> ok, kind |-> kind,
         category |-> IF kind = "object" THEN Member("category") ELSE NoName,
         destinationAccount |->
           IF kind = "object" THEN Member("destinationAccount") ELSE NoName,
         budget |-> IF kind = "object" THEN Member("budget") ELSE NoName]
  IN IF Len(s) = 1 /\ s[1] \in Scalars
     THEN Value(TRUE, IF s[1] = JsonNull THEN "null" ELSE "scalar")
     ELSE IF /\ Len(s) >= 2 /\ s[1] = "{" /\ s[Len(s)] = "}"
             /\ \A i \in 1..Len(inner) : inner[i] \in PairTokens
     THEN Value(TRUE, "object")
     ELSE Value(FALSE, "error")

\* The same finding no name known.
ResolvedNever(known, x) == NoName

\* The same without the test of membership.
SuggestedAlways(known, x) == x

\* known.indexOf(x) !== -1 ? x : null  and  known.indexOf(x) === -1 ? x : null
Resolved(known, x) == IF x \in known THEN x ELSE NoName
Suggested(known, x) == IF x \notin known THEN x ELSE NoName

NoParsed ==
  [tier |-> 0, category |-> NoName, suggestedCategory |-> NoName,
   destinationAccount |-> NoName, suggestedDestinationAccount |-> NoName,
   budget |-> NoName, suggestedBudget |-> NoName]

\* The same taking the budget named for a known one without the test of
\* membership.
FromJsonBudgetUnchecked(tier, json, categories, existingAccounts, autoDestinationAccount, budgets, autoBudget) ==
  [tier |-> tier,
   category |-> Resolved(categories, json.category),
   suggestedCategory |-> Suggested(categories, json.category),
   destinationAccount |->
     IF autoDestinationAccount THEN Resolved(existingAccounts, json.destinationAccount)
     ELSE NoName,
   suggestedDestinationAccount |->
     IF autoDestinationAccount THEN Suggested(existingAccounts, json.destinationAccount)
     ELSE NoName,
   budget |-> IF autoBudget THEN json.budget ELSE NoName,
   suggestedBudget |-> NoName]

\* The result built of a parsed JSON value (part_000:492-511 and 524-543).
FromJson(tier, json, categories, existingAccounts, autoDestinationAccount, budgets, autoBudget) ==
  [tier |-> tier,
   category |-> Resolved(categories, json.category),
   suggestedCategory |-> Suggested(categories, json.category),
   destinationAccount |->
     IF autoDestinationAccount THEN Resolved(existingAccounts, json.destinationAccount)
     ELSE NoName,
   suggestedDestinationAccount |->
     IF autoDestinationAccount THEN Suggested(existingAccounts, json.destinationAccount)
     ELSE NoName,
   budget |-> IF autoBudget THEN Resolved(budgets, json.budget) ELSE NoName,
   suggestedBudget |-> IF autoBudget THEN Suggested(budgets, json.budget) ELSE NoName]

\* A match that finds nothing.
RegexMatchNothing(t) == <<>>

\* response.match(/\{[\s\S]*\}/): from the first { to the last }, or <<>> when
\* there is no match.
RegexMatch(t) ==
  LET Open == {i \in 1..Len(t) : t[i] = "{"}
      Close == {i \in 1..Len(t) : t[i] = "}"}
      first == CHOOSE i \in Open : \A k \in Open : i <= k
      last == CHOOSE i \in Close : \A k \in Close : k <= i
  IN IF Open = {} \/ Close = {} THEN <<>>
     ELSE IF first < last THEN SubSeq(t, first, last) ELSE <<>>

\* t.split("|")
RECURSIVE Split(_)
Split(t) ==
  LET Bars == {i \in 1..Len(t) : t[i] = "|"}
      first == CHOOSE i \in Bars : \A k \in Bars : i <= k
  IN IF Bars = {} THEN <<t>>
     ELSE <<SubSeq(t, 1, first - 1)>> \o Split(SubSeq(t, first + 1, Len(t)))

\* OpenAiService.#parseResponse.  tier tells which of its four returns made the
\* result.
ParseResponse(response, categories, existingAccounts, autoDestinationAccount, budgets, autoBudget) ==
  LET json == JsonParse(response)
      jsonMatch == RegexMatch(response)
      fallback == JsonParse(jsonMatch)
      cleanResponse == Trim(response)
      parts == Split(cleanResponse)
      category == Trim(parts[1])
      account == Trim(parts[2])
      budget == IF Len(parts) >= 3 THEN Trim(parts[3]) ELSE NoName
  IN IF json.ok /\ json.kind # "null"
     THEN FromJson(1, json, categories, existingAccounts, autoDestinationAccount,
                   budgets, autoBudget)
     ELSE IF jsonMatch # <<>> /\ fallback.ok
     THEN FromJson(2, fallback, categories, existingAccounts, autoDestinationAccount,
                   budgets, autoBudget)
     ELSE IF Len(parts) >= 2
     THEN [NoParsed EXCEPT
             !.tier = 3,
             !.category = Resolved(categories, category),
             !.suggestedCategory = Suggested(categories, category),
             !.destinationAccount =
                IF autoDestinationAccount /\ account # <<>>
                THEN Resolved(existingAccounts, account) ELSE NoName,
             !.suggestedDestinationAccount =
                IF autoDestinationAccount /\ account # <<>>
                THEN Suggested(existingAccounts, account) ELSE NoName,
             !.budget =
                IF autoBudget /\ budget # <<>> /\ budget # NoName
                THEN Resolved(budgets, budget) ELSE NoName,
             !.suggestedBudget =
                IF autoBudget /\ budget # <<>> /\ budget # NoName
                THEN Suggested(budgets, budget) ELSE NoName]
     ELSE [NoParsed EXCEPT
             !.tier = 4,
             !.category = Resolved(categories, cleanResponse),
             !.suggestedCategory = Suggested(categories, cleanResponse)]

\* OpenAiService.classify, from the provider's answer on: the answer trimmed,
\* then parsed.
OpenAiClassify(content, categories, existingAccounts, autoDestinationAccount, budgets, autoBudget) ==
  ParseResponse(Trim(content), categories, existingAccounts, autoDestinationAccount,
                budgets, autoBudget)

\* ------------------------------------------------- the model endpoint
\* What the model endpoint answers: kind "ok" is a success carrying the model's
\* text, kind "status" a non-success answer with its status code and body, kind
\* "network" no answer at all.
Undefined == "undefined"
HttpCodes == {"404", "500"}
ErrorTexts == {"not found", "overloaded"}

Reply(kind, status, text, content) ==
  [kind |-> kind, status |-> status, text |-> text, content |-> content]

\* new OllamaException(statusCode, response, body) and
\* new OpenAiException(statusCode, response, body).
ProviderException(statusCode, body) ==
  [state |-> "thrown", code |-> statusCode, body |-> body,
   category |-> NoName, suggestedCategory |-> NoName]

Returned(category, suggestedCategory) ==
  [state |-> "returned", code |-> Undefined, body |-> Undefined,
   category |-> category, suggestedCategory |-> suggestedCategory]

NoOutcome ==
  [state |-> "none", code |-> Undefined, body |-> Undefined,
   category |-> NoName, suggestedCategory |-> NoName]

\* An error object as the catch blocks read it: whether it has a response
\* property, that response's data, and its own status and message.
Thrown(hasResponse, data, status, message) ==
  [hasResponse |-> hasResponse, data |-> data, status |-> status,
   message |-> message]

\* The message of the SDK's error for a non-success answer: the status code
\* followed by the body.
ApiMessage(status, text) ==
  CASE status = "404" /\ text = "not found" -> "404 not found"
    [] status = "404" /\ text = "overloaded" -> "404 overloaded"
    [] status = "500" /\ text = "not found" -> "500 not found"
    [] OTHER -> "500 overloaded"

\* The catch block of both classify methods: an error with a response property
\* is thrown again with error.status and error.response.data, any other with
\* null and its message.
CatchClassify(error) ==
  IF error.hasResponse
  THEN ProviderException(error.status, error.data)
  ELSE ProviderException(Null, error.message)

\* OllamaService.classify from the answer of fetch on.  The exception of the
\* non-ok branch is thrown inside the try block: its response property is the
\* Response object, which has no data, and it has no status property.
OllamaClassify(reply, categories) ==
  LET guess == Trim(reply.content)
  IN CASE reply.kind = "ok" ->
            IF guess \notin categories
            THEN Returned(NoName, guess)
            ELSE Returned(guess, NoName)
       [] reply.kind = "status" ->
            CatchClassify(Thrown(TRUE, Undefined, Undefined,
                                 "Error while communicating with Ollama"))
       [] OTHER ->
            CatchClassify(Thrown(FALSE, Undefined, Undefined, "fetch failed"))

\* OpenAiService.classify from the answer of chat.completions.create on,
\* called as App calls it (no accounts, no budgets).  The SDK's error for a
\* non-success answer has a status and a message and no response property.
OpenAiServiceClassify(reply, categories) ==
  LET result == OpenAiClassify(reply.content, categories, {}, FALSE, {}, FALSE)
  IN CASE reply.kind = "ok" ->
            Returned(result.category, result.suggestedCategory)
       [] reply.kind = "status" ->
            CatchClassify(Thrown(FALSE, Undefined, reply.status,
                                 ApiMessage(reply.status, reply.text)))
       [] OTHER ->
            CatchClassify(Thrown(FALSE, Undefined, Undefined, "Connection error."))

\* ------------------------------------------------------- FireflyService
\* transaction.tags, or a new array when it is null, with the tag pushed.
PushTag(tags) == Append(IF tags = NullTags THEN <<>> ELSE tags, MarkerTag)

\* The same body with no category on its lines.
SetCategoryBodyNoCategory(lines, categoryId) ==
  [apply_rules |-> TRUE, fire_webhooks |-> TRUE,
   transactions |-> [i \in 1..Len(lines) |->
                       [transaction_journal_id |-> i, category_id |-> 0,
                        tags |-> PushTag(lines[i])]]]

\* The body setCategory sends: every line with the tag pushed to its tags.
SetCategoryBody(lines, categoryId) ==
  [apply_rules |-> TRUE, fire_webhooks |-> TRUE,
   transactions |-> [i \in 1..Len(lines) |->
                       [transaction_journal_id |-> i, category_id |-> categoryId,
                        tags |-> PushTag(lines[i])]]]

\* tags.push(tag) acts on the line's own array when it has one.
LinesAfterPush(lines) ==
  [i \in 1..Len(lines) |-> IF lines[i] = NullTags THEN NullTags ELSE PushTag(lines[i])]

\* The same not awaited: the task goes on to setJobFinished while the update is
\* on its way.
CallSetCategoryNotAwaited(M, j, categoryId) ==
  TaskFinish([M EXCEPT !.task[j].lines = LinesAfterPush(@),
                       !.calls[j] = Append(@, "setCategory"),
                       !.sent[j] = Append(@, SetCategoryBody(M.task[j].lines, categoryId))],
             j)

\* The task calls setCategory(content.id, content.transactions, categoryId).
CallSetCategory(M, j, categoryId) ==
  [M EXCEPT !.task[j].pc = "setCategory",
            !.task[j].lines = LinesAfterPush(@),
            !.calls[j] = Append(@, "setCategory"),
            !.sent[j] = Append(@, SetCategoryBody(M.task[j].lines, categoryId))]

\* The task calls createCategory(name); existed: the ledger holds the name now.
CallCreateCategory(M, j, name, existed) ==
  [M EXCEPT !.task[j].pc = "createCategory",
            !.calls[j] = Append(@, "createCategory"),
            !.creates[j] = Append(@, [name |-> name, existed |-> existed, id |-> 0])]

\* ------------------------------------- destination accounts and budgets
\* The names an index of the ledger may hold.
CategoryNames == {<<"Food">>, <<"Snacks">>}
AccountNames == {<<"Shop">>, <<"Amazon">>}
BudgetNames == {<<"Home">>}

\* Array.from(index.keys()) of the Map a get... method built; an id of 0 stands
\* for a name the ledger does not hold.
Keys(index) == {n \in DOMAIN index : index[n] # 0}

\* index.get(name); 0 stands for undefined.
Get(index, name) == IF name \in DOMAIN index THEN index[name] ELSE 0

\* JavaScript truthiness of a name.
TruthyName(x) == x # NoName /\ x # <<>>

\* The body setCategoryAndDestination sends: every line with the tag pushed to
\* its tags, the category and the destination only when the id is truthy.
SetCategoryAndDestinationBody(transactions, categoryId, destinationAccountId) ==
  [apply_rules |-> TRUE, fire_webhooks |-> TRUE,
   transactions |->
     [i \in 1..Len(transactions) |->
        [transaction_journal_id |-> i,
         tags |-> PushTag(transactions[i]),
         category_id |-> IF categoryId # 0 THEN categoryId ELSE 0,
         destination_id |->
           IF destinationAccountId # 0 THEN destinationAccountId ELSE 0]]]

\* FireflyService.setBudget: it logs, sends nothing and returns true; the
\* ledger is as it was.
SetBudget(L, transactionId, budgetId) == L

\* POST /api/v1/accounts and POST /api/v1/categories on the ledger of the
\* account runs: the name under a fresh id.
EntityCreate(L, kind, name) ==
  [L EXCEPT ![kind][name] = L.nextId, !.nextId = @ + 1]

\* PUT /api/v1/transactions/{id} on the ledger of the account runs: the first
\* line's category and destination, where the body names one.
EntityPut(L, body) ==
  LET u == body.transactions[1]
  IN [L EXCEPT !.tx.category_id = IF u.category_id # 0 THEN u.category_id ELSE @,
               !.tx.destination_id =
                  IF u.destination_id # 0 THEN u.destination_id ELSE @]

\* A job of the account runs before it starts.
NoEntityJob ==
  [pc |-> "idle", status |-> "none",
   index |-> [categories |-> [n \in CategoryNames |-> 0],
              accounts |-> [n \in AccountNames |-> 0],
              budgets |-> [n \in BudgetNames |-> 0]],
   result |-> NoParsed, categoryId |-> 0, destinationAccountId |-> 0,
   calls |-> <<>>, sent |-> <<>>, budgetCalls |-> <<>>,
   data |-> [category |-> NoName, suggestedDestinationAccount |-> NoName,
             suggestedBudget |-> NoName]]

\* The task's last statements: a resolved budget is handed to setBudget, then
\* setJobFinished.
EntityFinish(E) ==
  LET budget == E.job.result.budget
      budgetId == Get(E.job.index.budgets, budget)
  IN [E EXCEPT
        !.ledger = IF TruthyName(budget) THEN SetBudget(@, 1, budgetId) ELSE @,
        !.job.calls = IF TruthyName(budget) THEN Append(@, "setBudget") ELSE @,
        !.job.budgetCalls = IF TruthyName(budget) THEN Append(@, budgetId) ELSE @,
        !.job.pc = "idle",
        !.job.status = "finished"]

\* The catch block: setJobError.
EntityThrow(E) == [E EXCEPT !.job.pc = "idle", !.job.status = "error"]

\* The task from the ids on: the update is sent when there is a category or a
\* destination account to write.
EntityUpdate(E) ==
  IF E.job.categoryId # 0 \/ E.job.destinationAccountId # 0
  THEN [E EXCEPT
          !.job.pc = "setCategoryAndDestination",
          !.job.calls = Append(@, "setCategoryAndDestination"),
          !.job.sent =
             Append(@, SetCategoryAndDestinationBody(<<NullTags>>, E.job.categoryId,
                                                     E.job.destinationAccountId))]
  ELSE EntityFinish(E)

\* The same creating every suggested account, whatever the flag.
EntityAccountAlwaysCreated(E) ==
  IF TruthyName(E.job.result.suggestedDestinationAccount)
  THEN [E EXCEPT !.job.pc = "createDestinationAccount",
                 !.job.calls = Append(@, "createDestinationAccount")]
  ELSE EntityUpdate(E)

\* The task's destination account: a resolved account gives its id, a suggested
\* one is created when CREATE_DESTINATION_ACCOUNTS is set and left alone when
\* it is not.
EntityAccount(E) ==
  LET r == E.job.result
  IN IF TruthyName(r.destinationAccount)
     THEN EntityUpdate([E EXCEPT !.job.destinationAccountId =
                                    Get(E.job.index.accounts, r.destinationAccount)])
     ELSE IF TruthyName(r.suggestedDestinationAccount) /\ E.createDestinationAccounts
     THEN [E EXCEPT !.job.pc = "createDestinationAccount",
                    !.job.calls = Append(@, "createDestinationAccount")]
     ELSE EntityUpdate(E)

\* The task's category: a resolved category gives its id, a suggested one is
\* created.
EntityCategory(E) ==
  LET r == E.job.result
  IN IF TruthyName(r.category)
     THEN EntityAccount([E EXCEPT !.job.categoryId =
                                     Get(E.job.index.categories, r.category)])
     ELSE IF TruthyName(r.suggestedCategory)
     THEN [E EXCEPT !.job.pc = "createCategory",
                    !.job.calls = Append(@, "createCategory")]
     ELSE EntityAccount(E)

\* ------------------------------------------------------------ the ledger
\* The ledger keeps a line's tags as a set of tags: one entry per name.
RECURSIVE Dedup(_)
Dedup(tags) ==
  IF tags = <<>> THEN <<>>
  ELSE LET rest == Dedup(SubSeq(tags, 1, Len(tags) - 1))
           last == tags[Len(tags)]
       IN IF \E i \in 1..Len(rest) : rest[i] = last THEN rest ELSE Append(rest, last)

\* PUT /api/v1/transactions/{id}: each line of the body replaces the tags (and,
\* when it names one, the category) of the journal it names.
LedgerPut(L, txId, body) ==
  LET old == L.txs[txId]
      Named(i) == {k \in 1..Len(body.transactions) :
                     body.transactions[k].transaction_journal_id = i}
      Put(i) == LET u == body.transactions[CHOOSE k \in Named(i) : TRUE]
                IN [tags |-> Dedup(u.tags),
                    category_id |-> IF u.category_id # 0 THEN u.category_id
                                    ELSE old[i].category_id]
  IN [L EXCEPT !.txs[txId] =
        [i \in 1..Len(old) |-> IF Named(i) # {} THEN Put(i) ELSE old[i]]]

\* POST /api/v1/categories: a new category under a fresh id.
LedgerCreateCategory(L, name) ==
  [L EXCEPT !.categories[name] = L.nextId, !.nextId = @ + 1]

\* GET /api/v1/transactions/{id}: data.data of the answer.  The ledger keeps
\* tags on the lines; attributes has no tags of its own.
LedgerGet(L, txId) ==
  [id |-> txId, tags |-> NullTags,
   transactions |-> [i \in 1..Len(L.txs[txId]) |->
                       [transaction_journal_id |-> i, tags |-> L.txs[txId][i].tags]]]

\* GET /api/v1/transactions?limit=..&order_by=created_at&order_direction=desc:
\* the most recent transactions, the higher id being the more recent.
LedgerList(L, limit) ==
  LET n == Cardinality(TxIds)
      m == IF limit < n THEN limit ELSE n
  IN [i \in 1..m |-> LedgerGet(L, n + 1 - i)]

\* (tags || []).some(tag => (tag.name || tag) === tagName)
HasTag(tags, tagName) ==
  tags # NullTags /\ \E i \in 1..Len(tags) : tags[i] = tagName

\* FireflyService.getTransactionsWithTag: of the transactions listed, those with
\* the tag in attributes.tags or in the tags of the first line.
GetTransactionsWithTag(L, tagName, limit) ==
  SelectSeq(LedgerList(L, limit),
            LAMBDA t : \/ HasTag(t.tags, tagName)
                       \/ (t.transactions # <<>> /\ HasTag(t.transactions[1].tags, tagName)))

\* FireflyService.removeTagFromTransaction, from the answer of its GET on: the
\* body of its PUT.
RemoveTagBody(data, tagName) ==
  LET currentTags == IF data.tags = NullTags THEN <<>> ELSE data.tags
      updatedTags == SelectSeq(currentTags, LAMBDA t : t # tagName)
  IN [apply_rules |-> TRUE, fire_webhooks |-> FALSE,
      transactions |-> <<[transaction_journal_id |->
                            data.transactions[1].transaction_journal_id,
                          category_id |-> 0, tags |-> updatedTags]>>]

\* ------------------------------------------------------------- the webhook
\* The checks without the one of the first line's type.
WebhookErrorAnyType(body) ==
  IF body.trigger # "STORE_TRANSACTION" THEN "trigger is not STORE_TRANSACTION"
  ELSE IF body.response # "TRANSACTIONS" THEN "response is not TRANSACTIONS"
  ELSE IF body.id = 0 THEN "Missing content.id"
  ELSE IF body.hasTransactions /\ Len(body.transactions) = 0
  THEN "No transactions are available"
  ELSE IF ~body.hasTransactions THEN "TypeError"
  ELSE IF body.transactions[1].description = "" THEN "Missing description"
  ELSE IF body.transactions[1].destination_name = "" THEN "Missing destination_name"
  ELSE Null

\* The checks without the one of the trigger.
WebhookErrorAnyTrigger(body) ==
  IF body.response # "TRANSACTIONS" THEN "response is not TRANSACTIONS"
  ELSE IF body.id = 0 THEN "Missing content.id"
  ELSE IF body.hasTransactions /\ Len(body.transactions) = 0
  THEN "No transactions are available"
  ELSE IF ~body.hasTransactions THEN "TypeError"
  ELSE IF body.transactions[1].type \notin {"withdrawal", "deposit"}
  THEN "type has to be withdrawal or deposit"
  ELSE IF body.transactions[1].description = "" THEN "Missing description"
  ELSE IF body.transactions[1].destination_name = "" THEN "Missing destination_name"
  ELSE Null

\* App.#handleWebhook's checks, in order: the message of the exception thrown,
\* or Null.  Reading transactions[0] of an absent array is a TypeError.
WebhookError(body) ==
  IF body.trigger # "STORE_TRANSACTION" THEN "trigger is not STORE_TRANSACTION"
  ELSE IF body.response # "TRANSACTIONS" THEN "response is not TRANSACTIONS"
  ELSE IF body.id = 0 THEN "Missing content.id"
  ELSE IF body.hasTransactions /\ Len(body.transactions) = 0
  THEN "No transactions are available"
  ELSE IF ~body.hasTransactions THEN "TypeError"
  ELSE IF body.transactions[1].type \notin {"withdrawal", "deposit"}
  THEN "type has to be withdrawal or deposit"
  ELSE IF body.transactions[1].description = "" THEN "Missing description"
  ELSE IF body.transactions[1].destination_name = "" THEN "Missing destination_name"
  ELSE Null

\* The rest of App.#handleWebhook: createJob, then queue.push of the task, which
\* with autostart may start it at once.
Enqueue(M, id, kind, txId, lines) ==
  LET M1 == CreateJob(M, id)
      M2 == [M1 EXCEPT !.task[id] = [NoTask EXCEPT !.pc = "queued", !.kind = kind,
                                                   !.txId = txId, !.lines = lines],
                        !.queue.pushes = @ + 1]
  IN QPush(M2, id)

NoBody == Body("", "", 0, FALSE, <<>>)

Commit(M) ==
  /\ jobList' = M.jobList
  /\ jobLog' = M.jobLog
  /\ queue' = M.queue
  /\ task' = M.task
  /\ calls' = M.calls
  /\ sent' = M.sent
  /\ creates' = M.creates
  /\ untagged' = M.untagged

\* App.#onWebhook: 400 with the exception's message, or "Queued".
OnWebhook(body) ==
  LET err == WebhookError(body)
      id == NumJobs(App) + 1
      M == IF err # Null THEN App
           ELSE Enqueue(App, id, "webhook", body.id,
                        [i \in 1..Len(body.transactions) |-> body.transactions[i].tags])
  IN /\ err = Null => NumJobs(App) < MaxJobs
     /\ Commit(M)
     /\ http' = [status |-> IF err = Null THEN 200 ELSE 400,
                 message |-> IF err = Null THEN "Queued" ELSE err,
                 body |-> IF logging THEN body ELSE NoBody,
                 created |-> NumJobs(M) - NumJobs(App),
                 pushed |-> M.queue.pushes - queue.pushes]
     /\ UNCHANGED <<ledger, logging, polls, parsed, exchange, entity, listed>>

\* ------------------------------------------------- the queued task, part 3
\* getCategories returns: the Map of the ledger's categories, then classify is
\* called; or it throws a FireflyException.
GetCategoriesReturn(j, ok) ==
  /\ task[j].pc = "getCategories"
  /\ Commit(IF ok
            THEN [App EXCEPT !.task[j].categories = ledger.categories,
                             !.task[j].pc = "classify",
                             !.calls[j] = Append(@, "classify")]
            ELSE TaskThrow(App, j, "Error while communicating with Firefly III"))
  /\ UNCHANGED <<ledger, http, logging, polls, parsed, exchange, entity, listed>>

\* The statements after classify returned (App.js:190-226), to the next await.
AfterClassify(M, j, guess, L) ==
  LET t == M.task[j]
      result == Classify(KnownNames(t.categories), guess)
      newData == [M.jobList[j].data EXCEPT !.category = OrNull(result.category),
                                           !.response = OrNull(guess)]
      M1 == UpdateJobData([M EXCEPT !.task[j].result = result], j, newData)
  IN IF Truthy(result.category)
     THEN CallSetCategory(M1, j, t.categories[result.category])
     ELSE IF Truthy(result.suggestedCategory)
     THEN CallCreateCategory(M1, j, result.suggestedCategory,
                             L.categories[result.suggestedCategory] # 0)
     ELSE TaskFinish(M1, j)

\* classify returns the model's answer, or throws the provider's exception.
ClassifyReturn(j, ok, guess) ==
  /\ task[j].pc = "classify"
  /\ Commit(IF ok THEN AfterClassify(App, j, guess, ledger)
            ELSE TaskThrow(App, j, "Error while communicating with Ollama"))
  /\ UNCHANGED <<ledger, http, logging, polls, parsed, exchange, entity, listed>>

\* The same with the update carrying what the Map held for the name before.
AfterCreateCategoryStaleId(M, j, newCategoryId) ==
  LET name == M.task[j].result.suggestedCategory
      M1 == [M EXCEPT !.task[j].newCategoryId = newCategoryId,
                      !.task[j].categories[name] = newCategoryId]
  IN CallSetCategory(M1, j, M.task[j].categories[name])

\* The statements after createCategory returned the new id (App.js:210-217).
AfterCreateCategory(M, j, newCategoryId) ==
  LET name == M.task[j].result.suggestedCategory
      M1 == [M EXCEPT !.task[j].newCategoryId = newCategoryId,
                      !.task[j].categories[name] = newCategoryId]
  IN CallSetCategory(M1, j, newCategoryId)

\* createCategory returns the id of the category the ledger made, or throws; the
\* ledger refuses a name it already holds.
CreateCategoryReturn(j, ok) ==
  LET name == task[j].result.suggestedCategory
  IN /\ task[j].pc = "createCategory"
     /\ ok => ledger.categories[name] = 0
     /\ Commit(IF ok
               THEN [AfterCreateCategory(App, j, ledger.nextId) EXCEPT
                       !.creates[j][Len(creates[j])].id = ledger.nextId]
               ELSE TaskThrow(App, j, "Error while communicating with Firefly III"))
     /\ ledger' = IF ok THEN LedgerCreateCategory(ledger, name) ELSE ledger
     /\ UNCHANGED <<http, logging, polls, parsed, exchange, entity, listed>>

\* The same with the job's data updated after setJobFinished.
AfterSetCategoryLateUpdate(M, j) ==
  UpdateJobData(TaskFinish(M, j), j,
                [M.jobList[j].data EXCEPT !.category = M.task[j].result.suggestedCategory])

\* The statements after setCategory returned (App.js:219-226): in the creation
\* branch the job's data gets the new category; then setJobFinished.
AfterSetCategory(M, j) ==
  LET result == M.task[j].result
      M1 == IF Truthy(result.category) THEN M
            ELSE UpdateJobData(M, j, [M.jobList[j].data EXCEPT
                                        !.category = result.suggestedCategory])
  IN TaskFinish(M1, j)

\* A tag-poll task after setCategory returned: it calls
\* removeTagFromTransaction, whose first await is the GET of the transaction.
PollAfterSetCategory(M, j) ==
  [M EXCEPT !.task[j].pc = "getTransaction",
            !.calls[j] = Append(@, "getTransaction")]

\* setCategory returns once the ledger applied the update, or throws.
SetCategoryReturn(j, ok) ==
  /\ task[j].pc = "setCategory"
  /\ Commit(IF ~ok THEN TaskThrow(App, j, "Error while communicating with Firefly III")
            ELSE IF task[j].kind = "poll" THEN PollAfterSetCategory(App, j)
            ELSE AfterSetCategory(App, j))
  /\ ledger' = IF ok THEN LedgerPut(ledger, task[j].txId, sent[j][Len(sent[j])])
               ELSE ledger
  /\ UNCHANGED <<http, logging, polls, parsed, exchange, entity, listed>>

\* removeTagFromTransaction's GET returns and its PUT is sent, or it throws.
GetTransactionReturn(j, ok) ==
  /\ task[j].pc = "getTransaction"
  /\ Commit(IF ok
            THEN [App EXCEPT !.task[j].pc = "putTags",
                             !.task[j].data = LedgerGet(ledger, task[j].txId).transactions,
                             !.calls[j] = Append(@, "putTags"),
                             !.untagged[j] =
                                Append(@, RemoveTagBody(LedgerGet(ledger, task[j].txId),
                                                        FilterTag))]
            ELSE TaskThrow(App, j, "Error while communicating with Firefly III"))
  /\ UNCHANGED <<ledger, http, logging, polls, parsed, exchange, entity, listed>>

\* removeTagFromTransaction's PUT returns once the ledger applied it, and the
\* task ends; or it throws.
PutTagsReturn(j, ok) ==
  /\ task[j].pc = "putTags"
  /\ Commit(IF ok THEN TaskFinish(App, j)
            ELSE TaskThrow(App, j, "Error while communicating with Firefly III"))
  /\ ledger' = IF ok THEN LedgerPut(ledger, task[j].txId, untagged[j][Len(untagged[j])])
               ELSE ledger
  /\ UNCHANGED <<http, logging, polls, parsed, exchange, entity, listed>>

\* One job per transaction found, in the order found.
RECURSIVE EnqueueAll(_, _)
EnqueueAll(M, found) ==
  IF found = <<>> THEN M
  ELSE LET t == Head(found)
       IN EnqueueAll(Enqueue(M, NumJobs(M) + 1, "poll", t.id,
                             [i \in 1..Len(t.transactions) |-> t.transactions[i].tags]),
                     Tail(found))

\* Every job made so far finished after an update the ledger applied.
AllWritten ==
  \A j \in JobIds :
    jobList[j].status # "none" => jobList[j].status = "finished" /\ sent[j] # <<>>

\* A tag-poll cycle: getTransactionsWithTag(TAG_FILTER, TAG_LIMIT) returned.
Poll ==
  LET found == GetTransactionsWithTag(ledger, FilterTag, TagLimit)
      M == EnqueueAll(App, found)
  IN /\ Len(polls) < MaxPolls
     /\ NumJobs(App) + Len(found) <= MaxJobs
     /\ Commit(M)
     /\ polls' = Append(polls, [returned |-> [i \in 1..Len(found) |-> found[i].id],
                                first |-> NumJobs(App) + 1,
                                jobs |-> NumJobs(M) - NumJobs(App),
                                idle |-> AllWritten])
     /\ UNCHANGED <<ledger, http, logging, parsed, exchange, entity, listed>>

\* The 30 s timer of a started job fires before the job settled.
Timeout(j) ==
  /\ j \in queue.timers
  /\ queue.timeouts < MaxTimeouts
  /\ Commit(QTimeout(App, j))
  /\ UNCHANGED <<ledger, http, logging, polls, parsed, exchange, entity, listed>>

\* The provider answered: classify parses the answer.
ClassifyParse ==
  /\ ~parsed.done
  /\ parsed' = [parsed EXCEPT
                  !.done = TRUE,
                  !.result = OpenAiClassify(parsed.content, parsed.categories,
                                            ExistingAccounts,
                                            parsed.autoDestinationAccount,
                                            Budgets, parsed.autoBudget)]
  /\ UNCHANGED <<jobList, jobLog, queue, task, calls, sent, creates, ledger,
                 untagged, http, logging, polls, exchange, entity, listed>>

\* The endpoint answered the local provider's request.
OllamaReturn ==
  /\ exchange.ollama.state = "none"
  /\ exchange' = [exchange EXCEPT
                    !.ollama = OllamaClassify(exchange.reply, exchange.categories)]
  /\ UNCHANGED <<jobList, jobLog, queue, task, calls, sent, creates, ledger,
                 untagged, http, logging, polls, parsed, entity, listed>>

\* The endpoint answered the remote provider's request.
OpenAiReturn ==
  /\ exchange.openai.state = "none"
  /\ exchange' = [exchange EXCEPT
                    !.openai = OpenAiServiceClassify(exchange.reply, exchange.categories)]
  /\ UNCHANGED <<jobList, jobLog, queue, task, calls, sent, creates, ledger,
                 untagged, http, logging, polls, parsed, entity, listed>>

\* ------------------------------------------------------- specifications
\* Provider answers: every text of up to MaxLen tokens, JSON objects inside
\* other text, and texts of three and four segments.
RECURSIVE Texts(_)
Texts(n) ==
  IF n = 0 THEN {<<>>}
  ELSE LET shorter == Texts(n - 1)
       IN shorter \cup {Append(t, a) : t \in {u \in shorter : Len(u) = n - 1},
                                       a \in Alphabet}

Objects ==
  {<<"{">> \o p \o <<"}">> :
     p \in {<<>>} \cup {<<a>> : a \in PairTokens}
           \cup {<<a, b>> : a \in PairTokens, b \in PairTokens}}

EmbeddedTexts ==
  {pre \o obj \o post :
     pre \in {<<"Sure", Space>>, <<"{", Space>>, <<>>},
     obj \in Objects,
     post \in {<<Space, "Sure">>, <<Space, "}">>, <<Space, "{">>}}

Segments == {<<"Food">>, <<"Snacks">>, <<Space, "Amazon">>, <<"Home">>, <<>>}

SegmentTexts ==
  {a \o <<"|">> \o b \o <<"|">> \o c : a \in Segments, b \in Segments, c \in Segments}
  \cup {a \o <<"|">> \o b \o <<"|">> \o c \o <<"|">> \o d :
          a \in Segments, b \in Segments, c \in Segments, d \in {<<"Sure">>, <<>>}}

Answers == Texts(MaxLen) \cup EmbeddedTexts \cup SegmentTexts

NoParse ==
  [content |-> <<>>, categories |-> {}, autoDestinationAccount |-> FALSE,
   autoBudget |-> FALSE, done |-> FALSE, result |-> NoParsed]

NoExchange ==
  [reply |-> Reply("network", Undefined, Undefined, <<>>), categories |-> {},
   ollama |-> NoOutcome, openai |-> NoOutcome]

NoEntity ==
  [autoDestinationAccount |-> FALSE, createDestinationAccounts |-> FALSE,
   autoBudget |-> FALSE, jobs |-> 0, job |-> NoEntityJob,
   ledger |-> [categories |-> [n \in CategoryNames |-> 0],
               accounts |-> [n \in AccountNames |-> 0],
               budgets |-> [n \in BudgetNames |-> 0],
               nextId |-> 1,
               tx |-> [category_id |-> 0, destination_id |-> 0, budget_id |-> 0]]]

NoListed == [done |-> FALSE, limit |-> 0, returned |-> <<>>]

InitLedger ==
  [categories |-> [n \in CatNames |-> IF n = "Food" THEN 1 ELSE 0],
   nextId |-> 2,
   txs |-> [x \in TxIds |->
              IF x = 1 THEN <<[tags |-> <<>>, category_id |-> 0]>>
              ELSE <<[tags |-> <<>>, category_id |-> 0],
                     [tags |-> <<>>, category_id |-> 0]>>]]

NoHttp == [status |-> 0, message |-> "", body |-> NoBody, created |-> 0, pushed |-> 0]

InitApp ==
  /\ jobList = [j \in JobIds |-> NoJob]
  /\ jobLog = [j \in JobIds |-> <<>>]
  /\ queue = [jobs |-> <<>>, pending |-> 0, session |-> 0, running |-> FALSE,
              timers |-> {}, pushes |-> 0, timeouts |-> 0]
  /\ task = [j \in JobIds |-> NoTask]
  /\ calls = [j \in JobIds |-> <<>>]
  /\ sent = [j \in JobIds |-> <<>>]
  /\ creates = [j \in JobIds |-> <<>>]
  /\ untagged = [j \in JobIds |-> <<>>]
  /\ http = NoHttp
  /\ polls = <<>>

Init ==
  /\ InitApp
  /\ ledger = InitLedger
  /\ logging = FALSE
  /\ parsed = NoParse
  /\ exchange = NoExchange
  /\ entity = NoEntity
  /\ listed = NoListed

Next ==
  \/ \E body \in PipelineBodies : OnWebhook(body)
  \/ \E j \in JobIds, ok \in BOOLEAN : GetCategoriesReturn(j, ok)
  \/ \E j \in JobIds, ok \in BOOLEAN, guess \in Guesses : ClassifyReturn(j, ok, guess)
  \/ \E j \in JobIds, ok \in BOOLEAN : CreateCategoryReturn(j, ok)
  \/ \E j \in JobIds, ok \in BOOLEAN : SetCategoryReturn(j, ok)
  \/ \E j \in JobIds : Timeout(j)

Spec == Init /\ [][Next]_vars

\* The pipeline with calls that return: the call a started job awaits
\* eventually returns or fails.  The queue starts a job within the handler that
\* frees its slot, so it needs no fairness of its own.
Returns(j) ==
  \/ \E ok \in BOOLEAN : GetCategoriesReturn(j, ok)
  \/ \E ok \in BOOLEAN, guess \in Guesses : ClassifyReturn(j, ok, guess)
  \/ \E ok \in BOOLEAN : CreateCategoryReturn(j, ok)
  \/ \E ok \in BOOLEAN : SetCategoryReturn(j, ok)

Fairness == \A j \in JobIds : WF_vars(Returns(j))

LiveSpec == Spec /\ Fairness

\* The validation alone: every payload shape, the tasks left where the push
\* put them.
InitWebhook ==
  /\ InitApp
  /\ ledger = InitLedger
  /\ logging = TRUE
  /\ parsed = NoParse
  /\ exchange = NoExchange
  /\ entity = NoEntity
  /\ listed = NoListed

NextWebhook == \E body \in AllBodies : OnWebhook(body)

WebhookSpec == InitWebhook /\ [][NextWebhook]_vars

\* The tag-poll path: both transactions carry the filter tag, the two-line one
\* on both lines.
InitPollLedger ==
  [InitLedger EXCEPT
     !.txs = [x \in TxIds |->
                IF x = 1 THEN <<[tags |-> <<FilterTag>>, category_id |-> 0]>>
                ELSE <<[tags |-> <<FilterTag>>, category_id |-> 0],
                       [tags |-> <<FilterTag, OtherTag>>, category_id |-> 0]>>]]

InitPoll ==
  /\ InitApp
  /\ ledger = InitPollLedger
  /\ logging = FALSE
  /\ parsed = NoParse
  /\ exchange = NoExchange
  /\ entity = NoEntity
  /\ listed = NoListed

NextPoll ==
  \/ Poll
  \/ \E j \in JobIds, ok \in BOOLEAN : GetCategoriesReturn(j, ok)
  \/ \E j \in JobIds, ok \in BOOLEAN, guess \in Guesses : ClassifyReturn(j, ok, guess)
  \/ \E j \in JobIds, ok \in BOOLEAN : CreateCategoryReturn(j, ok)
  \/ \E j \in JobIds, ok \in BOOLEAN : SetCategoryReturn(j, ok)
  \/ \E j \in JobIds, ok \in BOOLEAN : GetTransactionReturn(j, ok)
  \/ \E j \in JobIds, ok \in BOOLEAN : PutTagsReturn(j, ok)
  \/ \E j \in JobIds : Timeout(j)

PollSpec == InitPoll /\ [][NextPoll]_vars

\* The parser alone, on every answer, set of known categories and request.
InitParser ==
  /\ InitApp
  /\ ledger = InitLedger
  /\ logging = FALSE
  /\ parsed \in [content : Answers, categories : CategorySets,
                  autoDestinationAccount : BOOLEAN, autoBudget : BOOLEAN,
                  done : {FALSE}, result : {NoParsed}]
  /\ exchange = NoExchange
  /\ entity = NoEntity
  /\ listed = NoListed

NextParser == ClassifyParse

ParserSpec == InitParser /\ [][NextParser]_vars

\* The two providers alone, each given the same answer of the endpoint and the
\* same known categories.
ProviderAnswers == Texts(MaxLen - 1) \cup Objects

Replies ==
  {Reply("ok", "200", "", c) : c \in ProviderAnswers}
  \cup {Reply("status", s, t, <<>>) : s \in HttpCodes, t \in ErrorTexts}
  \cup {Reply("network", Undefined, Undefined, <<>>)}

InitProvider ==
  /\ InitApp
  /\ ledger = InitLedger
  /\ logging = FALSE
  /\ parsed = NoParse
  /\ exchange \in [reply : Replies, categories : CategorySets,
                    ollama : {NoOutcome}, openai : {NoOutcome}]
  /\ entity = NoEntity
  /\ listed = NoListed

NextProvider == OllamaReturn \/ OpenAiReturn

ProviderSpec == InitProvider /\ [][NextProvider]_vars

\* ------------------------------------------- the task with accounts, budgets
\* A job starts: the indexes it asks for are fetched and classify is called.
EntityStart ==
  /\ entity.job.pc = "idle"
  /\ entity.jobs < MaxEntityJobs
  /\ entity' =
       [entity EXCEPT
          !.jobs = @ + 1,
          !.job = [NoEntityJob EXCEPT
                     !.pc = "classify",
                     !.status = "in_progress",
                     !.index = [categories |-> entity.ledger.categories,
                                accounts |-> entity.ledger.accounts,
                                budgets |-> entity.ledger.budgets],
                     !.calls = <<"getCategories">>
                               \o (IF entity.autoDestinationAccount
                                   THEN <<"getDestinationAccounts">> ELSE <<>>)
                               \o (IF entity.autoBudget THEN <<"getBudgets">> ELSE <<>>)
                               \o <<"classify">>]]
  /\ UNCHANGED <<jobList, jobLog, queue, task, calls, sent, creates, ledger,
                 untagged, http, logging, polls, parsed, exchange, listed>>

\* classify returns what the parser made of the answer, or fails.
EntityClassifyReturn ==
  /\ entity.job.pc = "classify"
  /\ \E ok \in BOOLEAN, content \in Objects :
       LET index == entity.job.index
           result ==
             OpenAiClassify(content, Keys(index.categories),
                            IF entity.autoDestinationAccount
                            THEN Keys(index.accounts) ELSE {},
                            entity.autoDestinationAccount,
                            IF entity.autoBudget THEN Keys(index.budgets) ELSE {},
                            entity.autoBudget)
       IN entity' =
            IF ok
            THEN EntityCategory(
                   [entity EXCEPT
                      !.job.result = result,
                      !.job.data =
                         [category |-> result.category,
                          suggestedDestinationAccount |->
                            result.suggestedDestinationAccount,
                          suggestedBudget |-> result.suggestedBudget]])
            ELSE EntityThrow(entity)
  /\ UNCHANGED <<jobList, jobLog, queue, task, calls, sent, creates, ledger,
                 untagged, http, logging, polls, parsed, exchange, listed>>

\* createCategory returns the new id, or fails.
EntityCreateCategoryReturn ==
  /\ entity.job.pc = "createCategory"
  /\ \E ok \in BOOLEAN :
       entity' =
         IF ok
         THEN EntityAccount(
                [entity EXCEPT
                   !.ledger = EntityCreate(@, "categories",
                                           entity.job.result.suggestedCategory),
                   !.job.categoryId = entity.ledger.nextId,
                   !.job.data.category = entity.job.result.suggestedCategory])
         ELSE EntityThrow(entity)
  /\ UNCHANGED <<jobList, jobLog, queue, task, calls, sent, creates, ledger,
                 untagged, http, logging, polls, parsed, exchange, listed>>

\* createDestinationAccount returns the new id, or fails.
EntityCreateAccountReturn ==
  /\ entity.job.pc = "createDestinationAccount"
  /\ \E ok \in BOOLEAN :
       entity' =
         IF ok
         THEN EntityUpdate(
                [entity EXCEPT
                   !.ledger = EntityCreate(@, "accounts",
                                           entity.job.result.suggestedDestinationAccount),
                   !.job.destinationAccountId = entity.ledger.nextId])
         ELSE EntityThrow(entity)
  /\ UNCHANGED <<jobList, jobLog, queue, task, calls, sent, creates, ledger,
                 untagged, http, logging, polls, parsed, exchange, listed>>

\* The update returns, or fails.
EntityUpdateReturn ==
  /\ entity.job.pc = "setCategoryAndDestination"
  /\ \E ok \in BOOLEAN :
       entity' =
         IF ok
         THEN EntityFinish([entity EXCEPT
                              !.ledger = EntityPut(@, entity.job.sent[Len(entity.job.sent)])])
         ELSE EntityThrow(entity)
  /\ UNCHANGED <<jobList, jobLog, queue, task, calls, sent, creates, ledger,
                 untagged, http, logging, polls, parsed, exchange, listed>>

\* The task with destination accounts and budgets, job after job, under every
\* setting of the three flags, on a ledger with and without the budget.
EntityLedgers ==
  {[categories |-> [n \in CategoryNames |-> IF n = <<"Food">> THEN 1 ELSE 0],
    accounts |-> [n \in AccountNames |-> IF n = <<"Shop">> THEN 2 ELSE 0],
    budgets |-> [n \in BudgetNames |-> b],
    nextId |-> 4,
    tx |-> [category_id |-> 0, destination_id |-> 0, budget_id |-> 0]] :
     b \in {0, 3}}

InitEntity ==
  /\ InitApp
  /\ ledger = InitLedger
  /\ logging = FALSE
  /\ parsed = NoParse
  /\ exchange = NoExchange
  /\ entity \in [autoDestinationAccount : BOOLEAN,
                 createDestinationAccounts : BOOLEAN,
                 autoBudget : BOOLEAN, jobs : {0}, job : {NoEntityJob},
                 ledger : EntityLedgers]
  /\ listed = NoListed

NextEntity ==
  \/ EntityStart
  \/ EntityClassifyReturn
  \/ EntityCreateCategoryReturn
  \/ EntityCreateAccountReturn
  \/ EntityUpdateReturn

EntitySpec == InitEntity /\ [][NextEntity]_vars

\* getTransactionsWithTag(TAG_FILTER, limit) called on the ledger as it is.
ListTagged ==
  /\ ~listed.done
  /\ \E limit \in 1..TagLimit :
       LET found == GetTransactionsWithTag(ledger, FilterTag, limit)
       IN listed' = [done |-> TRUE, limit |-> limit,
                     returned |-> [i \in 1..Len(found) |-> found[i].id]]
  /\ UNCHANGED <<jobList, jobLog, queue, task, calls, sent, creates, ledger,
                 untagged, http, logging, polls, parsed, exchange, entity>>

\* getTransactionsWithTag alone, on every ledger whose lines carry the filter
\* tag, another tag, both or none.
TagChoices == {<<>>, <<FilterTag>>, <<OtherTag>>, <<OtherTag, FilterTag>>}

TagLedgers ==
  {[InitLedger EXCEPT
      !.txs = [x \in TxIds |->
                 IF x = 1 THEN <<[tags |-> a, category_id |-> 0]>>
                 ELSE <<[tags |-> b, category_id |-> 0],
                        [tags |-> c, category_id |-> 0]>>]] :
     a \in TagChoices, b \in TagChoices, c \in TagChoices}

InitList ==
  /\ InitApp
  /\ ledger \in TagLedgers
  /\ logging = FALSE
  /\ parsed = NoParse
  /\ exchange = NoExchange
  /\ entity = NoEntity
  /\ listed = NoListed

NextList == ListTagged

ListSpec == InitList /\ [][NextList]_vars

\* ------------------------------------------------------------ vocabulary
Created(j) == jobList[j].status # "none"
Terminal(j) == jobList[j].status \in {"finished", "error"}
\* The job's task was called by the queue.
Started(j) == task[j].pc \notin {"none", "queued"}
\* The job's task awaits an external call: it started and has not settled.
InFlight(j) == task[j].pc \in AwaitedCalls
\* The job's classify call was issued.
ClassifyBegun(j) == \E i \in 1..Len(calls[j]) : calls[j][i] = "classify"
\* The job's transaction update was sent and has returned.
UpdateReturned(j) == sent[j] # <<>> /\ task[j].pc # "setCategory"
Waiting(j) == \E i \in 1..Len(queue.jobs) : queue.jobs[i] = j
\* The status changes of a job, in order.
Statuses(j) == SelectSeq(jobLog[j], LAMBDA s : s # "data")
IsPrefix(s, t) == Len(s) <= Len(t) /\ \A i \in 1..Len(s) : s[i] = t[i]
Count(seq, x) == Cardinality({i \in 1..Len(seq) : seq[i] = x})

\* ------------------------------------------------------------------ C1
\* C1 (as claimed): every job starts Queued, is set InProgress exactly once and
\* reaches exactly one terminal state exactly once, never leaves it and is never
\* run twice.  As far as a finite run can show it: the status changes of a job
\* are a prefix of Queued, InProgress, Finished|Errored, and a job that is not
\* yet terminal is still on its way there (it waits in the queue, or its task is
\* running).
C1_Lifecycle ==
  \A j \in JobIds :
    /\ \/ IsPrefix(Statuses(j), <<"queued", "in_progress", "finished">>)
       \/ IsPrefix(Statuses(j), <<"queued", "in_progress", "error">>)
    /\ Count(calls[j], "getCategories") <= 1
    /\ jobList[j].status = "queued" => Waiting(j)
    /\ jobList[j].status = "in_progress" => InFlight(j)

\* ------------------------------------------------------------------ C2
\* C2 (as claimed): at every moment at most one job's task is in flight, also
\* when a task outlives the queue's timeout.
C2_OneInFlight == Cardinality({j \in JobIds : InFlight(j)}) <= 1

\* ------------------------------------------------------------------ C3
\* C3 (as claimed): tasks start in push order: when a job has been set
\* InProgress, every job pushed before it has been set InProgress before.
C3_Fifo ==
  \A j1, j2 \in JobIds : (j1 < j2 /\ Started(j2)) => Started(j1)

\* ------------------------------------------------------------------ C4
\* C4 (as claimed): when the classify call of a job begins, the update of every
\* job enqueued before it has returned, or that job issued none and is terminal.
C4_WriteBeforeNextClassify ==
  \A j1, j2 \in JobIds :
    (j1 < j2 /\ ClassifyBegun(j2)) =>
       \/ UpdateReturned(j1)
       \/ sent[j1] = <<>> /\ Terminal(j1)

\* ------------------------------------------------------------------ C5
\* C5 (as claimed): a task that throws leaves its job Errored with the message,
\* and the jobs pushed after it are still started: none of them is left Queued
\* without being in the queue.
C5_ErrorKeepsQueue ==
  \A j \in JobIds :
    /\ jobList[j].status = "error" => jobList[j].data.error # Null
    /\ (Created(j) /\ ~Started(j)) => Waiting(j)

\* ------------------------------------------------------------------ C6
\* The rules the claim lists for a delivery.
ListedRules(body) ==
  /\ body.trigger = "STORE_TRANSACTION"
  /\ body.response = "TRANSACTIONS"
  /\ body.hasTransactions
  /\ body.transactions # <<>>
  /\ body.transactions[1].type \in {"withdrawal", "deposit"}
  /\ body.transactions[1].description # ""
  /\ body.transactions[1].destination_name # ""

Accepted == http.status = 200 /\ http.created = 1 /\ http.pushed = 1
Rejected == http.status = 400 /\ http.created = 0 /\ http.pushed = 0

\* C6 (as claimed): a delivery that breaks one of the listed rules is rejected
\* with an error and creates and pushes nothing; one that satisfies them all
\* creates one job and pushes one task.
C6_ListedRulesDecide ==
  http.status # 0 => IF ListedRules(http.body) THEN Accepted ELSE Rejected

\* C6 (amended): the same with one more rule, a content.id that is present.
C6_Validation ==
  http.status # 0 =>
    IF ListedRules(http.body) /\ http.body.id # 0 THEN Accepted ELSE Rejected

\* A delivery without a transactions array was rejected after one was accepted.
C6_Witness ==
  /\ http.status = 400
  /\ http.body.trigger = "STORE_TRANSACTION" /\ http.body.response = "TRANSACTIONS"
  /\ http.body.id # 0 /\ ~http.body.hasTransactions
  /\ queue.pushes = 1 /\ jobList[1].status = "in_progress"

\* ------------------------------------------------------------------ C7
PollJobs(p) == polls[p].first .. (polls[p].first + polls[p].jobs - 1)

Carries(L, txId, tagName) ==
  \E i \in 1..Len(L.txs[txId]) : HasTag(L.txs[txId][i].tags, tagName)

\* Every job there is finished after an update and a tag removal the ledger
\* applied.
CycleSucceeded ==
  /\ polls # <<>>
  /\ \E j \in JobIds : jobList[j].status # "none"
  /\ \A j \in JobIds : jobList[j].status # "none" =>
        jobList[j].status = "finished" /\ sent[j] # <<>> /\ untagged[j] # <<>>

\* A poll that ran when nothing was left to do found nothing and made no job.
SecondPollIdle ==
  \A p \in 1..Len(polls) :
    (p > 1 /\ polls[p].idle) => polls[p].returned = <<>> /\ polls[p].jobs = 0

\* C7 (as claimed): once every transaction of the poll cycles was written and
\* untagged with success, none of them carries the filter tag, and a poll that
\* follows finds no transaction and starts no classification.
C7_LoopGuard ==
  /\ CycleSucceeded =>
       \A j \in JobIds : jobList[j].status # "none" =>
         ~Carries(ledger, task[j].txId, FilterTag)
  /\ SecondPollIdle

\* C8 (as claimed): every line of every update sent carries the marker tag
\* exactly once.
C8_MarkerOnce ==
  \A j \in JobIds : \A i \in 1..Len(sent[j]) :
    \A k \in 1..Len(sent[j][i].transactions) :
      Count(sent[j][i].transactions[k].tags, MarkerTag) = 1

\* ------------------------------------------------------------------ C9
IndexOf(seq, x) == CHOOSE i \in 1..Len(seq) : seq[i] = x

\* C9: a job whose classification suggested a name outside the categories it
\* fetched makes exactly one createCategory call, with that name; it sends no
\* update before that call returned, at most one after, and that one carries on
\* every line the id the call returned; a job that finished sent it.
C9_CreateThenWrite ==
  \A j \in JobIds :
    Truthy(task[j].result.suggestedCategory) =>
      /\ Len(creates[j]) = 1
      /\ creates[j][1].name = task[j].result.suggestedCategory
      /\ Count(calls[j], "createCategory") = 1
      /\ Len(sent[j]) <= 1
      /\ sent[j] # <<>> =>
           /\ creates[j][1].id # 0
           /\ IndexOf(calls[j], "createCategory") < IndexOf(calls[j], "setCategory")
           /\ \A k \in 1..Len(sent[j][1].transactions) :
                sent[j][1].transactions[k].category_id = creates[j][1].id
      /\ jobList[j].status = "finished" => Len(sent[j]) = 1

\* A job created the category "Snacks", wrote it to a two-line transaction and
\* finished.
C9_Witness ==
  \E j \in JobIds :
    /\ jobList[j].status = "finished"
    /\ task[j].result.suggestedCategory = "Snacks"
    /\ Len(creates[j]) = 1 /\ creates[j][1].id = 2
    /\ Len(sent[j]) = 1 /\ Len(sent[j][1].transactions) = 2
    /\ ledger.categories["Snacks"] = 2
    /\ ledger.txs[2][2].category_id = 2

\* ----------------------------------------------------------------- C10
\* C10 (as claimed): createCategory is never called with a name the ledger
\* holds at the moment of the call.
C10_NoCreateOfExisting ==
  \A j \in JobIds : \A i \in 1..Len(creates[j]) : ~creates[j][i].existed

\* ----------------------------------------------------------------- C11
\* A field that holds a name: not null, not undefined, not the empty string.
Present(x) == x # NoName /\ x # <<>>

ExactlyOne(a, b) == Present(a) # Present(b)

\* What #parseResponse was given.
RawResponse == Trim(parsed.content)

\* C11 (as claimed): for the category, and for the destination account and the
\* budget when requested, exactly one of the resolved and the suggested field is
\* non-null when the raw response is not empty, and both are null when it is.
C11_ExactlyOne ==
  parsed.done =>
    LET r == parsed.result
        Pair(a, b) == IF RawResponse # <<>> THEN ExactlyOne(a, b)
                      ELSE ~Present(a) /\ ~Present(b)
    IN /\ Pair(r.category, r.suggestedCategory)
       /\ parsed.autoDestinationAccount =>
            Pair(r.destinationAccount, r.suggestedDestinationAccount)
       /\ parsed.autoBudget => Pair(r.budget, r.suggestedBudget)

\* ----------------------------------------------------------------- C12
\* The text is a JSON object.
IsObject(t) == JsonParse(t).ok /\ JsonParse(t).kind = "object"

\* The text from the first { to the last }, or <<>>.
GreedySpan(t) ==
  LET Open == {i \in 1..Len(t) : t[i] = "{"}
      Close == {i \in 1..Len(t) : t[i] = "}"}
  IN IF Open = {} \/ Close = {} THEN <<>>
     ELSE LET i == CHOOSE i \in Open : \A k \in Open : i <= k
              j == CHOOSE j \in Close : \A k \in Close : k <= j
          IN IF i < j THEN SubSeq(t, i, j) ELSE <<>>

\* C12 (as claimed): the tiers are tried in order and the first that succeeds
\* makes the result: tier 1 exactly when the whole text is a JSON object, tier 2
\* exactly when it is not and the greedy {...} substring is one, tiers 3 and 4
\* only when both failed.
C12_TierOrder ==
  parsed.done =>
    LET tier == parsed.result.tier
    IN /\ tier \in 1..4
       /\ tier = 1 <=> IsObject(RawResponse)
       /\ tier = 2 <=> ~IsObject(RawResponse) /\ IsObject(GreedySpan(RawResponse))
       /\ tier \in {3, 4} <=>
            ~IsObject(RawResponse) /\ ~IsObject(GreedySpan(RawResponse))

\* ----------------------------------------------------------------- C13
\* The result's three pairs, each with the names known for it.
Pairs(r, categories) ==
  {<<r.category, r.suggestedCategory, categories>>,
   <<r.destinationAccount, r.suggestedDestinationAccount, ExistingAccounts>>,
   <<r.budget, r.suggestedBudget, Budgets>>}

\* The category fields are those of the candidate x.
CategoryPlaced(x) ==
  IF x \in parsed.categories
  THEN parsed.result.category = x /\ parsed.result.suggestedCategory = NoName
  ELSE parsed.result.category = NoName /\ parsed.result.suggestedCategory = x

\* C13: in every tier a name that is known goes to the resolved field and the
\* suggested field is null, a name that is not known goes to the suggested field
\* and the resolved field is null; of a pair at most one field is non-null.
\* The candidate is told for one answer of each tier: the object with one
\* category member, that object inside other text, "w|Amazon", and the word w.
C13_Membership ==
  parsed.done =>
    /\ \A p \in Pairs(parsed.result, parsed.categories) :
         /\ ~(Present(p[1]) /\ Present(p[2]))
         /\ Present(p[1]) => p[1] \in p[3] /\ p[2] = NoName
         /\ Present(p[2]) => p[2] \notin p[3] /\ p[1] = NoName
    /\ \A c \in {"c=Food", "c=Snacks"} :
         /\ parsed.content = <<"{", c, "}">> => CategoryPlaced(PairValue(c))
         /\ parsed.content = <<"Sure", Space, "{", c, "}", Space, "Sure">> =>
              CategoryPlaced(PairValue(c))
    /\ \A w \in Words :
         /\ parsed.content = <<w>> => CategoryPlaced(<<w>>)
         /\ parsed.content = <<w, "|", "Amazon">> => CategoryPlaced(<<w>>)

\* '{"category":"Snacks"}' gave category null and suggestedCategory Snacks, with
\* the account requested and none answered.
C13_Witness ==
  /\ parsed.done
  /\ parsed.content = <<"{", "c=Snacks", "}">>
  /\ parsed.autoDestinationAccount
  /\ parsed.result.category = NoName
  /\ parsed.result.suggestedCategory = <<"Snacks">>

\* ----------------------------------------------------------------- C14
\* The result without the tier that made it.
Fields(r) == [r EXCEPT !.tier = 0]

\* What the parser makes of the text t, asked as the answer was.
ParsedAlone(t) ==
  ParseResponse(t, parsed.categories, ExistingAccounts,
                parsed.autoDestinationAccount, Budgets, parsed.autoBudget)

\* The text has a JSON object inside, with other text before or after it.
Embedded(t) ==
  {<<i, j>> \in (1..Len(t)) \X (1..Len(t)) :
     /\ i < j /\ (i > 1 \/ j < Len(t))
     /\ t[i] = "{" /\ t[j] = "}"
     /\ IsObject(SubSeq(t, i, j))}

Requested ==
  1 + (IF parsed.autoDestinationAccount THEN 1 ELSE 0)
    + (IF parsed.autoBudget THEN 1 ELSE 0)

\* The text splits on | into just as many segments as fields are requested, none
\* of them empty once trimmed.
SplitsAsRequested(t) ==
  LET segments == Split(t)
  IN /\ Len(segments) = Requested
     /\ \A i \in 1..Len(segments) : Trim(segments[i]) # <<>>

\* C15 (as claimed): when no JSON is found, the segments are used by position
\* only if the text splits into as many non-empty segments as fields are
\* requested; with any other number of segments the whole trimmed text is the
\* category candidate (tier 4).
C15_SegmentCount ==
  (parsed.done /\ parsed.result.tier \in {3, 4}) =>
    IF SplitsAsRequested(RawResponse)
    THEN parsed.result.tier = 3 \/ Requested = 1
    ELSE /\ parsed.result.tier = 4
         /\ CategoryPlaced(RawResponse)

\* ----------------------------------------------------------------- C16
\* No part of the text is JSON: not the whole, not anything between braces.
NoJson(t) == ~JsonParse(t).ok /\ Embedded(t) = {} /\ ~IsObject(GreedySpan(t))

HasBar(t) == \E i \in 1..Len(t) : t[i] = "|"

\* C16: a text with no JSON and no | is, trimmed, the category candidate: known,
\* it is the category and nothing is suggested; unknown, it is the suggested
\* category; the account and the budget, resolved and suggested, are null.
C16_BareCategory ==
  (parsed.done /\ NoJson(RawResponse) /\ ~HasBar(RawResponse)) =>
    LET r == parsed.result
    IN /\ r.tier = 4
       /\ IF RawResponse \in parsed.categories
          THEN r.category = RawResponse /\ r.suggestedCategory = NoName
          ELSE r.category = NoName /\ r.suggestedCategory = RawResponse
       /\ r.destinationAccount = NoName /\ r.suggestedDestinationAccount = NoName
       /\ r.budget = NoName /\ r.suggestedBudget = NoName

\* " Food " with the account and the budget requested gave the category Food and
\* no account.
C16_Witness ==
  /\ parsed.done
  /\ parsed.content = <<Space, "Food", Space>>
  /\ parsed.autoDestinationAccount /\ parsed.autoBudget
  /\ parsed.result.tier = 4
  /\ parsed.result.category = <<"Food">>
  /\ parsed.result.suggestedCategory = NoName
  /\ parsed.result.destinationAccount = NoName

\* ----------------------------------------------------------------- C17
\* The job's transaction update was sent and failed.
UpdateFailed(j) == jobList[j].status = "error" /\ sent[j] # <<>>

\* C17 (as claimed): a job sends one transaction update and never a second; when
\* that update fails the job is Errored and nothing the job did remains in the
\* ledger: no category it created, no change of a transaction.
C17_AllOrNothing ==
  /\ \A j \in JobIds : Len(sent[j]) <= 1 /\ Count(calls[j], "setCategory") <= 1
  /\ \A j \in JobIds : UpdateFailed(j) =>
       \A i \in 1..Len(creates[j]) :
         ledger.categories[creates[j][i].name] = 0
  /\ (\A j \in JobIds : Created(j) => UpdateFailed(j)) => ledger.txs = InitLedger.txs

\* ----------------------------------------------------------------- C18
\* The job's tag removal succeeded and no other job wrote its transaction.
RemovedAlone(j) ==
  /\ jobList[j].status = "finished" /\ untagged[j] # <<>>
  /\ \A k \in JobIds \ {j} : task[k].txId # task[j].txId

Without(tags, tagName) == SelectSeq(tags, LAMBDA t : t # tagName)

\* C18 (as claimed): after removeTagFromTransaction succeeded the tags of the
\* transaction are those it had when re-read, less the named tag, on every line;
\* and the update was sent with fire_webhooks false.
C18_RemoveTagFrame ==
  \A j \in JobIds : RemovedAlone(j) =>
    /\ \A i \in 1..Len(ledger.txs[task[j].txId]) :
         ledger.txs[task[j].txId][i].tags = Without(task[j].data[i].tags, FilterTag)
    /\ \A i \in 1..Len(untagged[j]) : ~untagged[j][i].fire_webhooks

\* ----------------------------------------------------------------- C19
\* The job's classify call returned a result (its data were updated).
Classified(j) == Count(jobLog[j], "data") >= 1

Nothing(x) == x = Null \/ x = ""

\* C19: a job whose classification has neither a category nor a suggested
\* category calls neither createCategory nor the transaction update, and is
\* Finished.
C19_NothingApplied ==
  \A j \in JobIds :
    (/\ Classified(j)
     /\ Nothing(task[j].result.category)
     /\ Nothing(task[j].result.suggestedCategory)) =>
      /\ jobList[j].status = "finished"
      /\ calls[j] = <<"getCategories", "classify">>
      /\ creates[j] = <<>> /\ sent[j] = <<>>
      /\ jobList[j].data.error = Null

\* Two jobs got an empty answer and finished with the ledger as it was.
C19_Witness ==
  /\ \A j \in {1, 2} :
       /\ Classified(j) /\ task[j].result.suggestedCategory = ""
       /\ jobList[j].status = "finished" /\ jobList[j].data.category = Null
  /\ ledger = InitLedger

\* ----------------------------------------------------------------- C20
\* The last call the job issued.
LastCall(j) == calls[j][Len(calls[j])]

\* The job's task ended, and on a call that is followed by another whenever it
\* succeeds: that call failed.
FailedAt(j) ==
  IF task[j].pc # "settled" THEN Null
  ELSE IF LastCall(j) \in {"getCategories", "createCategory"} THEN LastCall(j)
  ELSE IF LastCall(j) = "classify" /\ ~Classified(j) THEN "classify"
  ELSE IF LastCall(j) = "setCategory" /\ jobList[j].status # "finished"
  THEN "setCategory"
  ELSE Null

\* C20: a job of which an external call failed is Errored with the message of
\* that error, has issued no call after the failed one and none twice, and from
\* then on nothing of it changes: no call is added, status and message stay.
C20_FailureEndsJob ==
  /\ [](\A j \in JobIds :
          /\ FailedAt(j) # Null =>
               /\ jobList[j].status = "error"
               /\ jobList[j].data.error =
                    (IF FailedAt(j) = "classify"
                     THEN "Error while communicating with Ollama"
                     ELSE "Error while communicating with Firefly III")
          /\ jobList[j].status = "error" =>
               /\ FailedAt(j) # Null
               /\ \A c \in AwaitedCalls : Count(calls[j], c) <= 1)
  /\ [][\A j \in JobIds :
          jobList[j].status = "error" =>
            calls'[j] = calls[j] /\ jobList'[j] = jobList[j]]_vars

\* A job failed at createCategory and a job failed at classify.
C20_Witness ==
  /\ \E j \in JobIds :
       /\ jobList[j].status = "error"
       /\ calls[j] = <<"getCategories", "classify", "createCategory">>
  /\ \E j \in JobIds :
       /\ jobList[j].data.error = "Error while communicating with Ollama"
       /\ calls[j] = <<"getCategories", "classify">>

\* ----------------------------------------------------------------- C21
Outcomes == {exchange.ollama, exchange.openai}

\* C21: to a non-success answer of the endpoint each provider's classify fails
\* with an error whose code is the answer's status code and whose body is the
\* answer's body.
C21_ProviderError ==
  exchange.reply.kind = "status" =>
    \A o \in Outcomes :
      o.state # "none" =>
        /\ o.state = "thrown"
        /\ o.code = exchange.reply.status
        /\ o.body = exchange.reply.text

\* ----------------------------------------------------------------- C24
\* C24: given the same model text and the same known categories, the two
\* providers return the same category and the same suggested category.
C24_Interchangeable ==
  (exchange.ollama.state = "returned" /\ exchange.openai.state = "returned") =>
    /\ exchange.ollama.category = exchange.openai.category
    /\ exchange.ollama.suggestedCategory = exchange.openai.suggestedCategory

\* ----------------------------------------------------------------- C22
\* The ids of the budgets the ledger holds.
BudgetIds == {entity.ledger.budgets[n] : n \in Keys(entity.ledger.budgets)}

\* C22: no step of any job adds a budget to the ledger; a budget handed to
\* setBudget is the id of a budget the ledger holds, under the name the
\* classification resolved; a job whose budget is only suggested hands none;
\* the transaction's budget is none or one the ledger holds.
C22_NoBudgetCreated ==
  /\ [](/\ \A i \in 1..Len(entity.job.budgetCalls) :
             /\ entity.job.budgetCalls[i] \in BudgetIds
             /\ TruthyName(entity.job.result.budget)
             /\ entity.job.budgetCalls[i] =
                  Get(entity.ledger.budgets, entity.job.result.budget)
        /\ TruthyName(entity.job.result.suggestedBudget) =>
             entity.job.budgetCalls = <<>>
        /\ entity.ledger.tx.budget_id \in {0} \cup BudgetIds)
  /\ [][entity'.ledger.budgets = entity.ledger.budgets]_vars

\* The second job of a run finished on an answer naming a budget the ledger
\* does not hold: its category was written, no budget was handed over.
C22_Witness ==
  /\ entity.jobs = MaxEntityJobs
  /\ entity.job.status = "finished"
  /\ entity.job.result.suggestedBudget = <<"Home">>
  /\ entity.job.sent # <<>>
  /\ entity.job.budgetCalls = <<>>

\* ----------------------------------------------------------------- C23
AccountSuggested == TruthyName(entity.job.result.suggestedDestinationAccount)

CreateAccountCalled ==
  \E i \in 1..Len(entity.job.calls) : entity.job.calls[i] = "createDestinationAccount"

\* C23: createDestinationAccount is called only with the creation flag set and
\* an account suggested; with the flag off and an account suggested the call is
\* not made, the job's data hold the suggestion, no update of the job carries a
\* destination id, and no step adds an account to the ledger.
C23_AccountCreationFlag ==
  /\ [](/\ CreateAccountCalled =>
             entity.createDestinationAccounts /\ AccountSuggested
        /\ (AccountSuggested /\ ~entity.createDestinationAccounts) =>
             /\ ~CreateAccountCalled
             /\ entity.job.data.suggestedDestinationAccount =
                  entity.job.result.suggestedDestinationAccount
             /\ \A i \in 1..Len(entity.job.sent) :
                  \A k \in 1..Len(entity.job.sent[i].transactions) :
                    entity.job.sent[i].transactions[k].destination_id = 0)
  /\ [][~entity.createDestinationAccounts =>
          entity'.ledger.accounts = entity.ledger.accounts]_vars

\* With the flag off a job finished on an answer naming an unknown account:
\* its update was sent and the ledger's transaction has no destination.
C23_Witness ==
  /\ ~entity.createDestinationAccounts
  /\ entity.job.status = "finished"
  /\ entity.job.data.suggestedDestinationAccount = <<"Amazon">>
  /\ entity.job.sent # <<>>
  /\ entity.ledger.tx.category_id # 0
  /\ entity.ledger.tx.destination_id = 0

\* ----------------------------------------------------------------- C25
WasReturned(x) == \E i \in 1..Len(listed.returned) : listed.returned[i] = x

\* The transactions more recent than x that carry the tag.
MoreRecentTagged(x) == {y \in TxIds : y > x /\ Carries(ledger, y, FilterTag)}

\* C25: every transaction getTransactionsWithTag(tag, N) returns carries the
\* tag, and a transaction that carries the tag is left out only if N more recent
\* ones carry it.
C25_MostRecentTagged ==
  listed.done =>
    /\ \A x \in TxIds : WasReturned(x) => Carries(ledger, x, FilterTag)
    /\ \A x \in TxIds :
         (Carries(ledger, x, FilterTag) /\ ~WasReturned(x)) =>
           Cardinality(MoreRecentTagged(x)) >= listed.limit

\* ----------------------------------------------------------------- C26
\* C26: every job that was created is eventually Finished or Errored, when
\* every awaited call returns or fails.
C26_EveryJobSettles == \A j \in JobIds : Created(j) ~> Terminal(j)

\* ----------------------------------------------------------------- C27
\* The orders in which a job issues its calls.
CallOrders ==
  {<<"getCategories", "classify", "createCategory", "setCategory">>,
   <<"getCategories", "classify", "setCategory">>}

\* The job got the status in this step.
Becomes(j, status) == jobList'[j].status = status /\ jobList[j].status # status

\* C27: the calls of a job follow one of the two orders; the call its task
\* awaits is the last one it issued; a call is issued only in the step in which
\* the call before it returns; and a job that sent an update is set Finished
\* only in the step in which the ledger applied that update and the call
\* returned.
C27_SequentialCalls ==
  /\ [](\A j \in JobIds :
          /\ \E o \in CallOrders : IsPrefix(calls[j], o)
          /\ InFlight(j) => task[j].pc = LastCall(j)
          /\ (jobList[j].status = "finished" /\ sent[j] # <<>>) =>
               task[j].pc = "settled" /\ LastCall(j) = "setCategory")
  /\ [][\A j \in JobIds :
          /\ calls'[j] # calls[j] =>
               /\ calls'[j] = Append(calls[j], task'[j].pc)
               /\ calls[j] # <<>> => task[j].pc = LastCall(j)
          /\ (Becomes(j, "finished") /\ sent'[j] # <<>>) =>
               /\ task[j].pc = "setCategory"
               /\ sent'[j] = sent[j]
               /\ ledger' = LedgerPut(ledger, task[j].txId, sent[j][Len(sent[j])])]_vars

\* Two jobs finished, one after three calls and one after four.
C27_Witness ==
  \E j1, j2 \in JobIds :
    /\ jobList[j1].status = "finished" /\ jobList[j2].status = "finished"
    /\ calls[j1] = <<"getCategories", "classify", "setCategory">>
    /\ calls[j2] = <<"getCategories", "classify", "createCategory", "setCategory">>

\* ----------------------------------------------------------------- C28
\* C28: the mutator that made a job Finished or Errored is the last one applied
\* to it; no step changes the state or the data of a terminal job; and a step
\* that changes the state or the data of a job is a step of that job's own task.
C28_TerminalIsFinal ==
  /\ [](\A j \in JobIds :
          \A i \in 1..Len(jobLog[j]) :
            jobLog[j][i] \in {"finished", "error"} => i = Len(jobLog[j]))
  /\ [][\A j \in JobIds :
          /\ Terminal(j) => jobList'[j] = jobList[j] /\ jobLog'[j] = jobLog[j]
          /\ (Created(j) /\ jobList'[j] # jobList[j]) => task'[j].pc # task[j].pc]_vars

\* The first job is Finished with its data set, the second Errored, and the
\* third is running after both.
C28_Witness ==
  /\ jobList[1].status = "finished" /\ jobList[1].data.category # Null
  /\ jobList[2].status = "error"
  /\ jobList[3].status = "in_progress" /\ ClassifyBegun(3)

\* ----------------------------------------------------------------- C29
\* The number of jobs the registry holds, now and after the step.
JobsNow == Cardinality({j \in JobIds : jobList[j].status # "none"})
JobsNext == Cardinality({j \in JobIds : jobList'[j].status # "none"})

\* C29: a delivery of another trigger than STORE_TRANSACTION is rejected and
\* creates no job, and every step that creates a job is one STORE_TRANSACTION
\* delivery creating one job: there are never more jobs than such deliveries.
C29_NoSelfTrigger ==
  /\ []((http.status # 0 /\ http.body.trigger # "STORE_TRANSACTION") =>
          /\ Rejected
          /\ http.message = "trigger is not STORE_TRANSACTION")
  /\ [][JobsNext # JobsNow =>
          /\ JobsNext = JobsNow + 1
          /\ http'.body.trigger = "STORE_TRANSACTION"
          /\ http'.created = 1]_vars

\* After a job was created, the notification of an update, in every other
\* respect a delivery that would be accepted, was rejected.
C29_Witness ==
  /\ http.status = 400
  /\ http.body.trigger = "UPDATE_TRANSACTION"
  /\ http.body.response = "TRANSACTIONS" /\ http.body.id # 0
  /\ http.body.hasTransactions /\ http.body.transactions # <<>>
  /\ http.body.transactions[1].type = "withdrawal"
  /\ http.body.transactions[1].description # ""
  /\ http.body.transactions[1].destination_name # ""
  /\ JobsNow = 1 /\ queue.pushes = 1

\* ----------------------------------------------------------------- C30
\* C30: every line of every update a job sent carries a category id, which is
\* the id its own index holds for the category its classification resolved, or,
\* when none was resolved, the id its own createCategory call returned.
C30_CategoryIdWritten ==
  \A j \in JobIds :
    \A i \in 1..Len(sent[j]) :
      \A k \in 1..Len(sent[j][i].transactions) :
        LET id == sent[j][i].transactions[k].category_id
            result == task[j].result
        IN /\ id # 0
           /\ IF Truthy(result.category)
              THEN /\ creates[j] = <<>>
                   /\ id = task[j].categories[result.category]
              ELSE /\ creates[j] # <<>>
                   /\ id = creates[j][Len(creates[j])].id

\* One job wrote the id of the known category "Food", another the id its own
\* createCategory call returned.
C30_Witness ==
  \E j1, j2 \in JobIds :
    /\ task[j1].result.category = "Food"
    /\ sent[j1] # <<>> /\ sent[j1][1].transactions[1].category_id = 1
    /\ task[j2].result.suggestedCategory = "Snacks"
    /\ sent[j2] # <<>> /\ creates[j2] # <<>>
    /\ sent[j2][1].transactions[1].category_id = creates[j2][1].id

====
